---- MODULE Spec2Model ----
(***************************************************************************)
(* Model of the water-usage backend (src/app.py): the readings table, the  *)
(* add_reading handler (SELECT of the latest prior reading, then INSERT),  *)
(* and the dashboard, trend and export views computed from the table.      *)
(*                                                                         *)
(* Numbers: meter readings are modelled as integers (the code uses floats  *)
(* on the same arithmetic); dates are day ordinals, so date + timedelta(i) *)
(* is date + i and the order of dates is the order of the ordinals.        *)
(***************************************************************************)
EXTENDS Integers, Sequences, FiniteSets, TLC

VARIABLES
    readings,   \* the readings table: rows in insertion order
    pc,         \* per request handler: "start" | "selected" (between SELECT and INSERT)
    req,        \* per request handler: the parsed request body of add_reading
    prev,       \* per request handler: <<prev_domestic, prev_flush>> read by the SELECT
    resp        \* the response produced by the handler that completed last

vars == <<readings, pc, req, prev, resp>>

----------------------------------------------------------------------------
(* Bounds of the model *)

MaxDate == 2
MaxRaceRecords == 3
MaxRecords == 3
MaxDashRecords == 2
MaxExportRecords == 3
MaxTrendRecords == 8

(* Program constants *)

THRESHOLD == 500
WINDOW == 7
HORIZON == 3
TOPN == 3
SCALE == 100

AREAS ==
    << "HOSTEL 1", "HOSTEL 2", "HOSTEL 3", "HOSTEL 4",
       "HOSTEL 5", "HOSTEL 6", "HOSTEL 7", "HOSTEL 8",
       "HOSTEL 9", "HOSTEL 10",
       "CAFETERIA 1", "CAFETERIA 2",
       "ACADEMIC BLOCK",
       "NOB",
       "HOUSING FACILITY 1", "HOUSING FACILITY 2",
       "HOUSING FACILITY 3", "HOUSING FACILITY 4",
       "HOUSING FACILITY 5" >>

AreaSet == {AREAS[i] : i \in DOMAIN AREAS}

Workers == {1, 2}

NoReq == [hostel_name |-> "", date |-> 0, domestic_reading |-> 0, flush_reading |-> 0]
NoPrev == <<0, 0>>

----------------------------------------------------------------------------
(* Generic helpers *)

RECURSIVE SeqSum(_)
SeqSum(s) == IF s = <<>> THEN 0 ELSE Head(s) + SeqSum(Tail(s))

Max(a, b) == IF a >= b THEN a ELSE b
Min(a, b) == IF a <= b THEN a ELSE b
Abs(a) == IF a >= 0 THEN a ELSE -a

SetMax(S) == CHOOSE x \in S : \A y \in S : y <= x

RowsOf(hostel) == {i \in DOMAIN readings : readings[i].hostel_name = hostel}

----------------------------------------------------------------------------
(* add_reading *)

\* Faulty variant of LatestRows: ORDER BY date ASC.
LatestRowsOldest(hostel) ==
    {i \in RowsOf(hostel) : \A j \in RowsOf(hostel) : readings[i].date <= readings[j].date}

\* SELECT domestic_reading, flush_reading FROM readings WHERE hostel_name = %s
\* ORDER BY date DESC LIMIT 1: the rows the query may return.  Rows of the
\* same date are in no specified order, so any of them may come first.
LatestRows(hostel) ==
    {i \in RowsOf(hostel) : \A j \in RowsOf(hostel) : readings[j].date <= readings[i].date}

\* prev = cur.fetchone(); prev[0] if prev else 0, prev[1] if prev else 0
PrevReadings(hostel) ==
    IF LatestRows(hostel) = {}
    THEN {NoPrev}
    ELSE {<<readings[i].domestic_reading, readings[i].flush_reading>> : i \in LatestRows(hostel)}

\* Faulty variant of Anomaly: >= in place of >.
AnomalyAtLeast(total_usage) == IF total_usage >= THRESHOLD THEN 1 ELSE 0

\* anomaly = 1 if total_usage > 500 else 0
Anomaly(total_usage) == IF total_usage > THRESHOLD THEN 1 ELSE 0

\* Faulty variant of Usage: a negative usage clamped to 0.
UsageClamped(today, previous) == Max(today - previous, 0)

\* domestic_today - prev_domestic, flush_today - prev_flush
Usage(today, previous) == today - previous

\* The row add_reading inserts for request r after reading p = <<prev_domestic, prev_flush>>.
NewRow(r, p) ==
    LET domestic_usage == Usage(r.domestic_reading, p[1])
        flush_usage == Usage(r.flush_reading, p[2])
        total_usage == domestic_usage + flush_usage
    IN  [hostel_name |-> r.hostel_name,
         date |-> r.date,
         domestic_reading |-> r.domestic_reading,
         flush_reading |-> r.flush_reading,
         domestic_usage |-> domestic_usage,
         flush_usage |-> flush_usage,
         total_usage |-> total_usage,
         anomaly_flag |-> Anomaly(total_usage)]

\* The JSON body add_reading returns for the row it inserted.
AddReadingResponse(row) ==
    [kind |-> "add_reading",
     status |-> 200,
     domestic_usage |-> row.domestic_usage,
     flush_usage |-> row.flush_usage,
     total_usage |-> row.total_usage,
     anomaly_flag |-> row.anomaly_flag]

\* The request bodies drawn from an input domain.
Requests(in) ==
    [hostel_name : in.hostels, date : in.dates,
     domestic_reading : in.dvals, flush_reading : in.fvals]

Selected == {w \in Workers : pc[w] = "selected"}

\* Faulty variant of AddReadingSelect: the SELECT waits until no other
\* handler is between its SELECT and its INSERT (a lock the code does not take).
AddReadingSelectLocked(w, in) ==
    /\ pc[w] = "start"
    /\ \A v \in Workers : pc[v] = "start"
    /\ Len(readings) + Cardinality(Selected) < in.cap
    /\ \E r \in Requests(in) : \E p \in PrevReadings(r.hostel_name) :
          /\ req' = [req EXCEPT ![w] = r]
          /\ prev' = [prev EXCEPT ![w] = p]
    /\ pc' = [pc EXCEPT ![w] = "selected"]
    /\ UNCHANGED <<readings, resp>>

\* First half of the handler: parse the body, run the SELECT.
AddReadingSelect(w, in) ==
    /\ pc[w] = "start"
    /\ Len(readings) + Cardinality(Selected) < in.cap
    /\ \E r \in Requests(in) : \E p \in PrevReadings(r.hostel_name) :
          /\ req' = [req EXCEPT ![w] = r]
          /\ prev' = [prev EXCEPT ![w] = p]
    /\ pc' = [pc EXCEPT ![w] = "selected"]
    /\ UNCHANGED <<readings, resp>>

\* Second half: compute the usage, INSERT, commit, return the JSON body.
AddReadingInsert(w) ==
    /\ pc[w] = "selected"
    /\ readings' = Append(readings, NewRow(req[w], prev[w]))
    /\ resp' = AddReadingResponse(NewRow(req[w], prev[w]))
    /\ pc' = [pc EXCEPT ![w] = "start"]
    /\ req' = [req EXCEPT ![w] = NoReq]
    /\ prev' = [prev EXCEPT ![w] = NoPrev]

\* The whole handler run without another request in between.
AddReading(in) ==
    /\ Len(readings) < in.cap
    /\ \E r \in Requests(in) : \E p \in PrevReadings(r.hostel_name) :
          /\ readings' = Append(readings, NewRow(r, p))
          /\ resp' = AddReadingResponse(NewRow(r, p))
    /\ UNCHANGED <<pc, req, prev>>

----------------------------------------------------------------------------
(* dashboard *)

StoredDates == {readings[i].date : i \in DOMAIN readings}

\* Faulty variant of DashboardRows: no restriction to the latest date.
DashboardRowsAnyDate == DOMAIN readings

\* WHERE date = (SELECT MAX(date) FROM readings): no rows when the table is empty.
DashboardRows ==
    IF readings = <<>>
    THEN {}
    ELSE {i \in DOMAIN readings : readings[i].date = SetMax(StoredDates)}

\* data_map = {row[0]: row for row in rows}: one row per area name; of several
\* rows of one area the last fetched wins, and the fetch order is unspecified.
DataMaps ==
    LET names == {readings[i].hostel_name : i \in DashboardRows}
    IN  {m \in [names -> DashboardRows] : \A h \in names : readings[m[h]].hostel_name = h}

AreaEntry(area, data_map) ==
    IF area \in DOMAIN data_map
    THEN [hostel_name |-> area,
          domestic_usage |-> readings[data_map[area]].domestic_usage,
          flush_usage |-> readings[data_map[area]].flush_usage,
          total_usage |-> readings[data_map[area]].total_usage,
          anomaly_flag |-> readings[data_map[area]].anomaly_flag]
    ELSE [hostel_name |-> area,
          domestic_usage |-> 0,
          flush_usage |-> 0,
          total_usage |-> 0,
          anomaly_flag |-> 0]

AreasData(data_map) == [k \in DOMAIN AREAS |-> AreaEntry(AREAS[k], data_map)]

\* Faulty variant of InsertDesc: an entry goes before those of equal total.
RECURSIVE InsertDescTiesFirst(_, _)
InsertDescTiesFirst(s, e) ==
    IF s = <<>> THEN <<e>>
    ELSE IF Head(s).total_usage > e.total_usage
         THEN <<Head(s)>> \o InsertDescTiesFirst(Tail(s), e)
         ELSE <<e>> \o s

\* sorted(areas_data, key=total_usage, reverse=True): a stable sort, so entries
\* of equal total_usage keep their order in areas_data.
RECURSIVE InsertDesc(_, _)
InsertDesc(s, e) ==
    IF s = <<>> THEN <<e>>
    ELSE IF Head(s).total_usage >= e.total_usage
         THEN <<Head(s)>> \o InsertDesc(Tail(s), e)
         ELSE <<e>> \o s

RECURSIVE SortedDescPrefix(_, _)
SortedDescPrefix(seq, n) ==
    IF n = 0 THEN <<>> ELSE InsertDesc(SortedDescPrefix(seq, n - 1), seq[n])

SortedDesc(seq) == SortedDescPrefix(seq, Len(seq))

\* sorted(...)[:3]
TopAreas(areas_data) == SubSeq(SortedDesc(areas_data), 1, Min(TOPN, Len(areas_data)))

DashboardResponse(data_map) ==
    LET areas_data == AreasData(data_map)
    IN  [kind |-> "dashboard",
         status |-> 200,
         areas |-> areas_data,
         total_today |-> SeqSum([k \in DOMAIN areas_data |-> areas_data[k].total_usage]),
         total_domestic |-> SeqSum([k \in DOMAIN areas_data |-> areas_data[k].domestic_usage]),
         total_flush |-> SeqSum([k \in DOMAIN areas_data |-> areas_data[k].flush_usage]),
         top_areas |-> TopAreas(areas_data)]

Dashboard ==
    /\ \E data_map \in DataMaps : resp' = DashboardResponse(data_map)
    /\ UNCHANGED <<readings, pc, req, prev>>

----------------------------------------------------------------------------
(* export *)

RECURSIVE SumOver(_, _)
SumOver(S, f) ==
    IF S = {} THEN 0
    ELSE LET i == CHOOSE j \in S : TRUE IN f[i] + SumOver(S \ {i}, f)

RECURSIVE SortedSeq(_)
SortedSeq(S) ==
    IF S = {} THEN <<>>
    ELSE LET m == CHOOSE x \in S : \A y \in S : x <= y
         IN  <<m>> \o SortedSeq(S \ {m})

\* WHERE date BETWEEN start_date AND end_date
RowsInRange(start_date, end_date) ==
    {i \in DOMAIN readings : start_date <= readings[i].date /\ readings[i].date <= end_date}

\* pivot_table(index="date", columns="hostel_name", values=..., aggfunc="sum").fillna(0),
\* read at (date, area); a column the frame lacks is added as 0 (the loop over
\* AREAS), and only the AREAS columns are kept.
PivotCell(df, value, date, area) ==
    LET cell == {i \in df : readings[i].date = date /\ readings[i].hostel_name = area}
    IN  IF cell = {} THEN 0 ELSE SumOver(cell, value)

DomesticUsages == [i \in DOMAIN readings |-> readings[i].domestic_usage]
FlushUsages == [i \in DOMAIN readings |-> readings[i].flush_usage]

\* Faulty variant of CombinedRow: the "D" column before the "F" column.
CombinedRowDomesticFirst(df, date) ==
    [Date |-> date,
     cells |-> [c \in 1..(2 * Len(AREAS)) |->
                  IF c % 2 = 1
                  THEN PivotCell(df, DomesticUsages, date, AREAS[(c + 1) \div 2])
                  ELSE PivotCell(df, FlushUsages, date, AREAS[c \div 2])]]

\* combined: "Date", then for each area in AREAS its "F" and its "D" column.
CombinedRow(df, date) ==
    [Date |-> date,
     cells |-> [c \in 1..(2 * Len(AREAS)) |->
                  IF c % 2 = 1
                  THEN PivotCell(df, FlushUsages, date, AREAS[(c + 1) \div 2])
                  ELSE PivotCell(df, DomesticUsages, date, AREAS[c \div 2])]]

Combined(df) ==
    LET index == SortedSeq({readings[i].date : i \in df})
    IN  [k \in DOMAIN index |-> CombinedRow(df, index[k])]

\* Faulty variant of ExportResponse: no "if df.empty" answer.
ExportEmptyMatrix(start_date, end_date) ==
    [kind |-> "export",
     args |-> <<start_date, end_date>>,
     status |-> 200,
     matrix |-> Combined(RowsInRange(start_date, end_date))]

\* if df.empty: 404 "No data found"; otherwise the combined frame.
ExportResponse(start_date, end_date) ==
    IF RowsInRange(start_date, end_date) = {}
    THEN [kind |-> "export",
          args |-> <<start_date, end_date>>,
          status |-> 404,
          error |-> "No data found"]
    ELSE [kind |-> "export",
          args |-> <<start_date, end_date>>,
          status |-> 200,
          matrix |-> Combined(RowsInRange(start_date, end_date))]

ExportData(start_date, end_date) ==
    /\ resp' = ExportResponse(start_date, end_date)
    /\ UNCHANGED <<readings, pc, req, prev>>

----------------------------------------------------------------------------
(* trend *)

\* WHERE hostel_name = ANY(areas)
TrendRows(areas) == {i \in DOMAIN readings : readings[i].hostel_name \in areas}

\* historical[date]: the sums of the selected rows of that date.
Historical(areas, date) ==
    LET day == {i \in TrendRows(areas) : readings[i].date = date}
    IN  [domestic |-> SumOver(day, DomesticUsages),
         flush |-> SumOver(day, FlushUsages)]

SortedDates(areas) == SortedSeq({readings[i].date : i \in TrendRows(areas)})

\* Faulty variant of Last7: the whole history.
Last7All(sorted_dates) == sorted_dates

\* sorted_dates[-7:] if len(sorted_dates) >= 7 else sorted_dates (applied to
\* the per-date entries, which are in the order of sorted_dates)

Last7(sorted_dates) ==
    IF Len(sorted_dates) >= WINDOW
    THEN SubSeq(sorted_dates, Len(sorted_dates) - WINDOW + 1, Len(sorted_dates))
    ELSE sorted_dates

\* np.polyfit(x, vals, 1) for x = 0..m-1: the least-squares line, as exact
\* fractions slope / den and intercept / den (den > 0 when m >= 2).
PolyFit(vals) ==
    LET m == Len(vals)
        Sx == SeqSum([k \in 1..m |-> k - 1])
        Sxx == SeqSum([k \in 1..m |-> (k - 1) * (k - 1)])
        Sy == SeqSum(vals)
        Sxy == SeqSum([k \in 1..m |-> (k - 1) * vals[k]])
    IN  [slope |-> m * Sxy - Sx * Sy,
         intercept |-> Sy * Sxx - Sx * Sxy,
         den |-> m * Sxx - Sx * Sx]

\* coef[0] * future_x + coef[1], as the fraction num / coef.den
PredNum(coef, future_x) == coef.slope * future_x + coef.intercept

\* round(max(pred, 0), 2), in hundredths.  The fit is computed in floating
\* point, so a prediction lying exactly halfway between two hundredths may be
\* rounded either way.
Round2(num, den) ==
    LET n0 == Max(num, 0)
        q == (SCALE * n0) \div den
        r == (SCALE * n0) % den
    IN  IF 2 * r < den THEN {q}
        ELSE IF 2 * r > den THEN {q + 1}
        ELSE {q, q + 1}

\* historical, in date order: one entry per date of the selected rows.
HistoricalSeq(areas) ==
    LET sorted_dates == SortedDates(areas)
    IN  <<>> \o [k \in DOMAIN sorted_dates |->
                   [date |-> sorted_dates[k],
                    domestic |-> Historical(areas, sorted_dates[k]).domestic,
                    flush |-> Historical(areas, sorted_dates[k]).flush]]

\* The historical points of trend_data: values in hundredths (SCALE * the sum).
TrendHistory(hist) ==
    [k \in DOMAIN hist |->
        [date |-> hist[k].date,
         domestic |-> SCALE * hist[k].domestic,
         flush |-> SCALE * hist[k].flush,
         is_forecast |-> FALSE]]

\* The forecast point for i = 1..3 (range(1, 4)): the values it may take.
ForecastPoints(hist, domestic_coef, flush_coef, m, i) ==
    {[date |-> hist[Len(hist)].date + i,
      domestic |-> d,
      flush |-> f,
      is_forecast |-> TRUE] :
        d \in Round2(PredNum(domestic_coef, m + i - 1), domestic_coef.den),
        f \in Round2(PredNum(flush_coef, m + i - 1), flush_coef.den)}

\* np.polyfit on a single point is degenerate (x = [0] scales to 0/0): the
\* request either fails or answers with undefined forecast values.
TrendDegenerate(areas, hist) ==
    {[kind |-> "trend", args |-> areas, status |-> 500],
     [kind |-> "trend", args |-> areas, status |-> 200,
      data |-> TrendHistory(hist) \o
               [i \in 1..HORIZON |->
                   [date |-> hist[1].date + i,
                    domestic |-> "NaN", flush |-> "NaN", is_forecast |-> TRUE]]]}

TrendForecast(areas, hist) ==
    LET last_7 == <<>> \o Last7(hist)
        m == Len(last_7)
        domestic_coef == PolyFit(<<>> \o [k \in DOMAIN last_7 |-> last_7[k].domestic])
        flush_coef == PolyFit(<<>> \o [k \in DOMAIN last_7 |-> last_7[k].flush])
    IN  {[kind |-> "trend", args |-> areas, status |-> 200,
          data |-> TrendHistory(hist) \o <<p1, p2, p3>>] :
            p1 \in ForecastPoints(hist, domestic_coef, flush_coef, m, 1),
            p2 \in ForecastPoints(hist, domestic_coef, flush_coef, m, 2),
            p3 \in ForecastPoints(hist, domestic_coef, flush_coef, m, 3)}

TrendResponses(areas) ==
    IF areas = {} \/ TrendRows(areas) = {}
    THEN {[kind |-> "trend", args |-> areas, status |-> 200, data |-> <<>>]}
    ELSE IF Len(SortedDates(areas)) < 2
    THEN TrendDegenerate(areas, HistoricalSeq(areas))
    ELSE TrendForecast(areas, HistoricalSeq(areas))

GetTrend(areas) ==
    /\ \E r \in TrendResponses(areas) : resp' = r
    /\ UNCHANGED <<readings, pc, req, prev>>

----------------------------------------------------------------------------
(* Specification of concurrent ingestion: two request handlers *)

RaceInputs ==
    [hostels |-> {"HOSTEL 1", "HOSTEL 11"},
     dates |-> 1..MaxDate,
     dvals |-> {250, 251},
     fvals |-> {250},
     cap |-> MaxRaceRecords]

Init ==
    /\ readings = <<>>
    /\ pc = [w \in Workers |-> "start"]
    /\ req = [w \in Workers |-> NoReq]
    /\ prev = [w \in Workers |-> NoPrev]
    /\ resp = [kind |-> "none"]

Next ==
    \E w \in Workers :
        \/ AddReadingSelect(w, RaceInputs)
        \/ AddReadingInsert(w)

Spec == Init /\ [][Next]_vars

----------------------------------------------------------------------------
(* Specification of ingestion one request at a time, with the dashboard and *)
(* the export queried in between                                            *)

SeqInputs ==
    [hostels |-> {"HOSTEL 1", "HOSTEL 3", "HOSTEL 11"},
     dates |-> 1..MaxDate,
     dvals |-> {250, 251},
     fvals |-> {250},
     cap |-> MaxRecords]

NextSeq == AddReading(SeqInputs)

SpecSeq == Init /\ [][NextSeq]_vars

----------------------------------------------------------------------------
(* Specification of the dashboard over sequentially ingested readings *)

DashInputs ==
    [hostels |-> {"HOSTEL 1", "HOSTEL 3", "HOSTEL 11"},
     dates |-> 1..MaxDate,
     dvals |-> {250, 251},
     fvals |-> {250},
     cap |-> MaxDashRecords]

NextDash ==
    \/ AddReading(DashInputs)
    \/ Dashboard

SpecDash == Init /\ [][NextDash]_vars

----------------------------------------------------------------------------
(* Specification of the export over sequentially ingested readings *)

ExportInputs ==
    [hostels |-> {"HOSTEL 1", "HOSTEL 3", "HOSTEL 11"},
     dates |-> 1..MaxDate,
     dvals |-> {250},
     fvals |-> {100},
     cap |-> MaxExportRecords]

NextExport ==
    \/ AddReading(ExportInputs)
    \/ \E start_date, end_date \in 1..MaxDate : ExportData(start_date, end_date)

SpecExport == Init /\ [][NextExport]_vars

----------------------------------------------------------------------------
(* Specification of the trend: HOSTEL 1 is read once a day, on consecutive *)
(* days, and HOSTEL 2 may be read on the day of the latest reading         *)

LastDate == IF readings = <<>> THEN 0 ELSE SetMax(StoredDates)

DailyInputs ==
    [hostels |-> {"HOSTEL 1"},
     dates |-> {LastDate + 1},
     dvals |-> {10, 30},
     fvals |-> {5},
     cap |-> MaxTrendRecords]

SameDayInputs ==
    [hostels |-> {"HOSTEL 2"},
     dates |-> {LastDate},
     dvals |-> {30},
     fvals |-> {0},
     cap |-> MaxTrendRecords]

TrendQueries == {{}, {"HOSTEL 1"}, {"HOSTEL 2"}, {"HOSTEL 1", "HOSTEL 2"}}

NextTrend ==
    \/ AddReading(DailyInputs)
    \/ readings # <<>> /\ AddReading(SameDayInputs)
    \/ \E areas \in TrendQueries : GetTrend(areas)

SpecTrend == Init /\ [][NextTrend]_vars

----------------------------------------------------------------------------
(* Claims about add_reading under concurrent ingestion (Spec) *)

SelectStep(w) == pc[w] = "start" /\ pc'[w] = "selected"
InsertStep(w) == pc[w] = "selected" /\ pc'[w] = "start"

\* C1: every add_reading call for area A with readings (v_d, v_f) stores and
\* returns, per commodity, v - p, where p is the cumulative reading of a
\* stored row of A with the latest date at the time of the SELECT (both
\* commodities from the same row), or 0 when A has no stored row; nothing is
\* clamped or rejected when v < p.
C1_UsageIsReadingMinusLatestPrior ==
    [][\A w \in Workers :
        /\ SelectStep(w) =>
             LET A == req'[w].hostel_name
                 rowsA == {i \in DOMAIN readings : readings[i].hostel_name = A}
             IN  IF rowsA = {}
                 THEN prev'[w] = <<0, 0>>
                 ELSE \E i \in rowsA :
                        /\ \A j \in rowsA : readings[j].date <= readings[i].date
                        /\ prev'[w] = <<readings[i].domestic_reading, readings[i].flush_reading>>
        /\ InsertStep(w) =>
             /\ Len(readings') = Len(readings) + 1
             /\ SubSeq(readings', 1, Len(readings)) = readings
             /\ LET row == readings'[Len(readings')]
                IN  /\ row.hostel_name = req[w].hostel_name
                    /\ row.date = req[w].date
                    /\ row.domestic_reading = req[w].domestic_reading
                    /\ row.flush_reading = req[w].flush_reading
                    /\ row.domestic_usage = req[w].domestic_reading - prev[w][1]
                    /\ row.flush_usage = req[w].flush_reading - prev[w][2]
                    /\ resp'.kind = "add_reading"
                    /\ resp'.domestic_usage = row.domestic_usage
                    /\ resp'.flush_usage = row.flush_usage
      ]_vars

\* C1 witness: a row stored with a negative usage (v < p), next to the row of
\* the same area whose reading was its prior, and returned as such.
C1_Witness ==
    /\ Len(readings) >= 2
    /\ LET row == readings[Len(readings)]
       IN  /\ row.domestic_usage < 0
           /\ resp.kind = "add_reading"
           /\ resp.domestic_usage = row.domestic_usage
           /\ \E i \in 1..(Len(readings) - 1) :
                /\ readings[i].hostel_name = row.hostel_name
                /\ row.domestic_usage = row.domestic_reading - readings[i].domestic_reading

\* C2: every stored row has total_usage = domestic_usage + flush_usage and
\* anomaly_flag set iff that total is strictly greater than 500; the flag is
\* a function of the row's own usages only.
C2_AnomalyIffTotalAboveThreshold ==
    \A i \in DOMAIN readings :
        /\ readings[i].total_usage = readings[i].domestic_usage + readings[i].flush_usage
        /\ readings[i].anomaly_flag \in {0, 1}
        /\ readings[i].anomaly_flag = 1 <=>
               readings[i].domestic_usage + readings[i].flush_usage > 500

\* C2 witness: a row with total exactly 500 that is not flagged, and a row
\* with total 501 that is.
C2_Witness ==
    \E i, j \in DOMAIN readings :
        /\ readings[i].total_usage = 500 /\ readings[i].anomaly_flag = 0
        /\ readings[j].total_usage = 501 /\ readings[j].anomaly_flag = 1

\* C3: ingestion is not atomic.  No handler is ever held back by another
\* handler that is between its SELECT and its INSERT: a handler at "start"
\* can always run its SELECT, one at "selected" can always run its INSERT,
\* and what a handler at "selected" holds is a prior it read from the table
\* (or 0), which its INSERT then uses whatever has been committed since.
C3_IngestionNotSerialized ==
    \A w \in Workers :
        /\ (pc[w] = "start" /\ Len(readings) + Cardinality(Selected) < MaxRaceRecords)
              => ENABLED AddReadingSelect(w, RaceInputs)
        /\ pc[w] = "selected" => ENABLED AddReadingInsert(w)
        /\ pc[w] = "selected" =>
              \/ prev[w] = <<0, 0>>
              \/ \E i \in DOMAIN readings :
                    /\ readings[i].hostel_name = req[w].hostel_name
                    /\ prev[w] = <<readings[i].domestic_reading, readings[i].flush_reading>>

\* C3 witness: two rows of the same area, both stored with the usage computed
\* against the same prior (none: usage = raw reading), although the first
\* row's reading is not 0: both SELECTs ran before either INSERT committed.
C3_Witness ==
    /\ Len(readings) = 2
    /\ resp.kind = "add_reading"
    /\ \A w \in Workers : pc[w] = "start"
    /\ readings[1].hostel_name = "HOSTEL 1"
    /\ readings[2].hostel_name = "HOSTEL 1"
    /\ readings[1].date < readings[2].date
    /\ readings[1].domestic_reading # 0
    /\ readings[1].domestic_usage = readings[1].domestic_reading
    /\ readings[2].domestic_usage = readings[2].domestic_reading
    /\ readings[1].flush_usage = readings[1].flush_reading
    /\ readings[2].flush_usage = readings[2].flush_reading

\* C4: every stored row's area is a member of the catalog AREAS (an ingestion
\* for any other area fails with InvalidArea and stores nothing).
C4_StoredAreasInCatalog ==
    \A i \in DOMAIN readings : readings[i].hostel_name \in AreaSet

----------------------------------------------------------------------------
(* Claims about the dashboard (SpecDash) *)

\* C5: every dashboard answer is a success with exactly one entry per catalog
\* area, in catalog order: an area with a row on the most recent date of the
\* table shows the usages, total and anomaly flag of such a row, every other
\* area shows 0 throughout; the grand totals are the sums of the entries, and
\* for the empty table every entry and every total is 0.
C5_DashboardCatalogComplete ==
    resp.kind = "dashboard" =>
        /\ resp.status = 200
        /\ Len(resp.areas) = Len(AREAS)
        /\ \A k \in DOMAIN AREAS :
             LET e == resp.areas[k]
                 latest == {i \in DOMAIN readings :
                              /\ readings[i].hostel_name = AREAS[k]
                              /\ \A j \in DOMAIN readings : readings[j].date <= readings[i].date}
             IN  /\ e.hostel_name = AREAS[k]
                 /\ IF latest = {}
                    THEN /\ e.domestic_usage = 0 /\ e.flush_usage = 0
                         /\ e.total_usage = 0 /\ e.anomaly_flag = 0
                    ELSE \E i \in latest :
                         /\ e.domestic_usage = readings[i].domestic_usage
                         /\ e.flush_usage = readings[i].flush_usage
                         /\ e.total_usage = readings[i].total_usage
                         /\ e.anomaly_flag = readings[i].anomaly_flag
        /\ resp.total_today = SeqSum([k \in DOMAIN AREAS |-> resp.areas[k].total_usage])
        /\ resp.total_domestic = SeqSum([k \in DOMAIN AREAS |-> resp.areas[k].domestic_usage])
        /\ resp.total_flush = SeqSum([k \in DOMAIN AREAS |-> resp.areas[k].flush_usage])
        /\ readings = <<>> =>
             resp.total_today = 0 /\ resp.total_domestic = 0 /\ resp.total_flush = 0

\* C5 witness: a dashboard that shows a flagged row of the latest date for
\* one area and zeros for a catalog area whose only row is of an older date.
C5_Witness ==
    /\ resp.kind = "dashboard"
    /\ \E k1, k2 \in DOMAIN AREAS :
         /\ resp.areas[k1].anomaly_flag = 1
         /\ resp.areas[k1].total_usage > 500
         /\ RowsOf(AREAS[k2]) # {}
         /\ resp.areas[k2].total_usage = 0
         /\ resp.areas[k2].domestic_usage = 0

C6_Pos(t) == CHOOSE k \in DOMAIN resp.areas : resp.areas[k].hostel_name = resp.top_areas[t].hostel_name

\* C6: top_areas has at most 3 entries, each an entry of areas, sorted by
\* total_usage descending; no entry left out has a greater total than one
\* included; entries of equal total are ordered, and selected, by their
\* position in AREAS.
C6_TopAreasStableTop3 ==
    resp.kind = "dashboard" =>
        LET top == resp.top_areas
            all == resp.areas
            chosen == {C6_Pos(t) : t \in DOMAIN top}
        IN  /\ Len(top) <= 3
            /\ Len(top) = Min(3, Len(all))
            /\ \A t \in DOMAIN top : top[t] = all[C6_Pos(t)]
            /\ \A t, u \in DOMAIN top : t < u =>
                 /\ top[t].total_usage >= top[u].total_usage
                 /\ top[t].total_usage = top[u].total_usage => C6_Pos(t) < C6_Pos(u)
            /\ \A k \in DOMAIN all : k \notin chosen =>
                 \A t \in DOMAIN top :
                     /\ top[t].total_usage >= all[k].total_usage
                     /\ top[t].total_usage = all[k].total_usage => C6_Pos(t) < k

\* C6 witness: two areas with the same non-zero total lead the ranking in
\* catalog order, and the third place goes to the first of the all-zero areas.
C6_Witness ==
    /\ resp.kind = "dashboard"
    /\ resp.top_areas[1].total_usage = resp.top_areas[2].total_usage
    /\ resp.top_areas[1].total_usage > 0
    /\ resp.top_areas[1].hostel_name = "HOSTEL 1"
    /\ resp.top_areas[2].hostel_name = "HOSTEL 3"
    /\ resp.top_areas[3].hostel_name = "HOSTEL 2"
    /\ resp.top_areas[3].total_usage = 0

----------------------------------------------------------------------------
(* Claims about the trend (SpecTrend) *)

C7_Dates == {readings[i].date : i \in {j \in DOMAIN readings : readings[j].hostel_name \in resp.args}}

C7_DaySum(date, usages) ==
    SumOver({i \in DOMAIN readings : readings[i].hostel_name \in resp.args /\ readings[i].date = date},
            usages)

\* coef is the least-squares line of y at positions 0..m-1: the residuals sum
\* to 0 and are orthogonal to the positions (the normal equations).
C7_IsLeastSquares(coef, y) ==
    /\ coef.den > 0
    /\ SeqSum([k \in DOMAIN y |-> coef.den * y[k] - coef.slope * (k - 1) - coef.intercept]) = 0
    /\ SeqSum([k \in DOMAIN y |-> (k - 1) * (coef.den * y[k] - coef.slope * (k - 1) - coef.intercept)]) = 0

\* The shape of the answer: the n daily sums in ascending date order, then 3
\* forecast points for the next 3 days.
C7_Shape ==
    LET n == Cardinality(C7_Dates)
        data == resp.data
    IN  /\ resp.status = 200
        /\ Len(data) = n + 3
        /\ \A k \in 1..n :
             /\ data[k].is_forecast = FALSE
             /\ data[k].date \in C7_Dates
             /\ k < n => data[k].date < data[k + 1].date
             /\ data[k].domestic = 100 * C7_DaySum(data[k].date, DomesticUsages)
             /\ data[k].flush = 100 * C7_DaySum(data[k].date, FlushUsages)
        /\ \A i \in 1..3 :
             /\ data[n + i].is_forecast = TRUE
             /\ data[n + i].date = data[n].date + i

\* The window of the fit: the last min(7, n) daily sums (in hundredths).
C7_WindowDomestic ==
    LET n == Cardinality(C7_Dates)
        m == Min(7, n)
    IN  [k \in 1..m |-> resp.data[n - m + k].domestic]

C7_WindowFlush ==
    LET n == Cardinality(C7_Dates)
        m == Min(7, n)
    IN  [k \in 1..m |-> resp.data[n - m + k].flush]

\* fc (hundredths) is the line of y evaluated at position m-1+i, clamped at 0.
C7_ExactClamped(fc, y, i) ==
    LET coef == PolyFit(y)
        num == coef.slope * (Len(y) - 1 + i) + coef.intercept
    IN  /\ C7_IsLeastSquares(coef, y)
        /\ fc * coef.den = Max(num, 0)

\* fc (hundredths) is that value rounded to the nearest hundredth.
C7_RoundedClamped(fc, y, i) ==
    LET coef == PolyFit(y)
        num == coef.slope * (Len(y) - 1 + i) + coef.intercept
    IN  /\ C7_IsLeastSquares(coef, y)
        /\ fc >= 0
        /\ 2 * Abs(fc * coef.den - Max(num, 0)) <= coef.den

C7_Applies == resp.kind = "trend" /\ Cardinality(C7_Dates) >= 2

\* C7 as stated: for n >= 2 history dates the answer is the n daily sums in
\* ascending date order followed by 3 forecast points for the next 3 days,
\* each equal, per commodity, to the least-squares line of the last min(7, n)
\* sums evaluated at position m-1+i and clamped at 0.
C7_ForecastIsExactLine ==
    C7_Applies =>
        /\ C7_Shape
        /\ \A i \in 1..3 :
             /\ C7_ExactClamped(resp.data[Cardinality(C7_Dates) + i].domestic, C7_WindowDomestic, i)
             /\ C7_ExactClamped(resp.data[Cardinality(C7_Dates) + i].flush, C7_WindowFlush, i)

\* C7 amended: as above, with each forecast value being the clamped line value
\* rounded to 2 decimals (within half a hundredth of it, never negative).
C7_ForecastIsRoundedLine ==
    C7_Applies =>
        /\ C7_Shape
        /\ \A i \in 1..3 :
             /\ C7_RoundedClamped(resp.data[Cardinality(C7_Dates) + i].domestic, C7_WindowDomestic, i)
             /\ C7_RoundedClamped(resp.data[Cardinality(C7_Dates) + i].flush, C7_WindowFlush, i)

\* C7 witness: the history [10, 20, 30] answered with [40, 50, 60], next to a
\* declining history [5, 0, 0] whose projection below zero is answered with 0.
C7_Witness ==
    /\ resp.kind = "trend"
    /\ resp.status = 200
    /\ Len(resp.data) = 6
    /\ [k \in 1..6 |-> resp.data[k].domestic] = <<1000, 2000, 3000, 4000, 5000, 6000>>
    /\ [k \in 1..6 |-> resp.data[k].flush] = <<500, 0, 0, 0, 0, 0>>
    /\ [k \in 1..6 |-> resp.data[k].is_forecast] = <<FALSE, FALSE, FALSE, TRUE, TRUE, TRUE>>

----------------------------------------------------------------------------
(* Claims about the export (SpecExport) *)

C8_InRange == {i \in DOMAIN readings : resp.args[1] <= readings[i].date /\ readings[i].date <= resp.args[2]}

\* C8: the export answers "no data" (404) iff no stored row has a date in
\* [start_date, end_date]; with a row in range it answers with a matrix of at
\* least one row, and the "no data" answer carries no matrix.
C8_NoDataIffNoRowInRange ==
    resp.kind = "export" =>
        /\ resp.status = 404 <=> C8_InRange = {}
        /\ C8_InRange # {} =>
             /\ resp.status = 200
             /\ "matrix" \in DOMAIN resp
             /\ Len(resp.matrix) >= 1
        /\ C8_InRange = {} =>
             /\ "matrix" \notin DOMAIN resp
             /\ resp.error = "No data found"

\* C8 witness: "no data" for a range that misses every row of a non-empty table.
C8_Witness ==
    /\ resp.kind = "export"
    /\ resp.status = 404
    /\ resp.args[1] <= resp.args[2]
    /\ readings # <<>>

\* C9: a returned matrix has one row per date that has a row in range, in
\* ascending date order, and each row has, for every catalog area in catalog
\* order, the flush cell then the domestic cell: the sum of that area's usage
\* on that date, 0 when the area has no row on that date.
C9_MatrixPerCatalogArea ==
    (resp.kind = "export" /\ resp.status = 200) =>
        LET dates == {readings[i].date : i \in C8_InRange}
            m == resp.matrix
        IN  /\ Len(m) = Cardinality(dates)
            /\ \A r \in DOMAIN m :
                 /\ m[r].Date \in dates
                 /\ r < Len(m) => m[r].Date < m[r + 1].Date
                 /\ Len(m[r].cells) = 2 * Len(AREAS)
                 /\ \A k \in DOMAIN AREAS :
                      LET cell == {i \in C8_InRange :
                                     readings[i].date = m[r].Date /\ readings[i].hostel_name = AREAS[k]}
                      IN  /\ m[r].cells[2 * k - 1] = SumOver(cell, FlushUsages)
                          /\ m[r].cells[2 * k] = SumOver(cell, DomesticUsages)
                          /\ cell = {} => m[r].cells[2 * k - 1] = 0 /\ m[r].cells[2 * k] = 0

\* C9 witness: a matrix row whose HOSTEL 3 group holds that area's usages
\* (flush 100, domestic 250) while HOSTEL 1, which has no row in range, holds
\* 0, over a range that also covers a row of an area outside the catalog.
C9_Witness ==
    /\ resp.kind = "export"
    /\ resp.status = 200
    /\ \E i \in C8_InRange : readings[i].hostel_name \notin AreaSet
    /\ \A i \in C8_InRange : readings[i].hostel_name # "HOSTEL 1"
    /\ \E r \in DOMAIN resp.matrix :
         /\ resp.matrix[r].cells[5] = 100
         /\ resp.matrix[r].cells[6] = 250
         /\ resp.matrix[r].cells[1] = 0
         /\ resp.matrix[r].cells[2] = 0

----------------------------------------------------------------------------
(* Claims about sequential ingestion (SpecSeq) *)

C10_Increasing(hostel) ==
    \A i, j \in RowsOf(hostel) : i < j => readings[i].date < readings[j].date

\* C10: with the add_reading calls run one at a time, an area whose rows were
\* ingested with strictly increasing dates has the sum of its stored
\* domestic_usage equal to the domestic reading of its latest row, and
\* likewise for flush.
C10_DeltasTelescope ==
    \A hostel \in SeqInputs.hostels :
        (RowsOf(hostel) # {} /\ C10_Increasing(hostel)) =>
            LET last == SetMax(RowsOf(hostel))
            IN  /\ SumOver(RowsOf(hostel), DomesticUsages) = readings[last].domestic_reading
                /\ SumOver(RowsOf(hostel), FlushUsages) = readings[last].flush_reading

\* C10 witness: an area read on day 1 and then, lower, on day 2: the usages
\* (251, then -1) sum to the latest reading.
C10_Witness ==
    /\ Cardinality(RowsOf("HOSTEL 1")) = 2
    /\ C10_Increasing("HOSTEL 1")
    /\ \E i \in RowsOf("HOSTEL 1") : readings[i].domestic_usage < 0

\* The equality of C10 without the condition on the order of the dates: it
\* fails when readings are ingested out of date order.
C10_TelescopeAnyOrder ==
    \A hostel \in SeqInputs.hostels :
        RowsOf(hostel) # {} =>
            SumOver(RowsOf(hostel), DomesticUsages) = readings[SetMax(RowsOf(hostel))].domestic_reading

\* The same for the concurrent handlers: it fails when two ingestions for one
\* area interleave, even with increasing dates.
C10_TelescopeInterleaved ==
    (RowsOf("HOSTEL 1") # {} /\ C10_Increasing("HOSTEL 1")) =>
        SumOver(RowsOf("HOSTEL 1"), DomesticUsages) = readings[SetMax(RowsOf("HOSTEL 1"))].domestic_reading

====
